---- MODULE Spec2Model ----
(***************************************************************************)
(* Model of evident's diversity handler (src/evident/diversity_handler.py) *)
(* and of the batch effect-size entry point (src/evident/q2/_methods.py).  *)
(*                                                                         *)
(* Reading of the source: diversity_handler.py omits the comma after the   *)
(* argument on line 76 and after the parameter on line 109.  The model     *)
(* reads both lines with the comma in place; every other token is taken    *)
(* as written, in particular the keyword total_observation on line 115.    *)
(*                                                                         *)
(* Python values are tagged tuples: <<"None">>, <<"int", n>>,              *)
(* <<"float", num, den>> (a reduced fraction), <<"partial", func, kw>>.    *)
(* A call's outcome is a record [kind, type, msg, value].                  *)
(***************************************************************************)
EXTENDS Integers, Sequences, FiniteSets, TLC

\* ------------------------------------------------------------------ bounds
NSamples == 3
MaxObs == 3
MaxCols == 2
MaxJobs == 2

\* ------------------------------------------------------------ Python values
None == <<"None">>

PyInt(n) == <<"int", n>>

RECURSIVE Gcd(_, _)
Gcd(a, b) == IF b = 0 THEN a ELSE Gcd(b, a % b)

\* a Python float holding the exact quotient n / d (d > 0, n >= 0)
PyFloat(n, d) == LET g == Gcd(n, d) IN <<"float", n \div g, d \div g>>

\* Python 3 floor division of an int by an int, kept for comparison
FloorDiv(x, d) == PyInt(x[2] \div d)

\* Python 3 true division of an int by an int: always a float
TrueDiv(x, d) == PyFloat(x[2], d)

Raise(type, msg) == [kind |-> "raise", type |-> type, msg |-> msg, value |-> None]

Return(v) == [kind |-> "return", type |-> "", msg |-> <<>>, value |-> v]

\* ------------------------------------------------ the metadata table's shape
SampleIds == 1..NSamples

\* the columns the tests use, and one with a value per sample
ColumnNames ==
    {"classification", "cd_behavior", "env_biome", "year_diagnosed", "host_subject_id"}

\* pandas dtype of a column; .loc keeps it
Dtype(column) == IF column = "year_diagnosed" THEN "int64" ELSE "object"

\* the value a column holds for a sample
ColumnValue(column, s) ==
    CASE column = "classification" -> s % 2
      [] column = "cd_behavior" -> s % 3
      [] column = "env_biome" -> 0
      [] column = "year_diagnosed" -> s % 2
      [] OTHER -> s

\* the diversity value of a sample (faith_pd)
DataValue(s) == (s * s) % 5

Range(seq) == {seq[i] : i \in DOMAIN seq}

\* all orders in which a set can be iterated
Orders(S) == {q \in [1..Cardinality(S) -> S] : Range(q) = S}

\* ----------------------------------------------------------------- state
VARIABLES
    pc,           \* "start" before the constructor ran, "constructed" after
    in_data,      \* sample ids of the data argument of the constructor
    in_metadata,  \* sample ids of the metadata argument of the constructor
    data,         \* self.data: the index of the Series, in order
    metadata,     \* self.metadata: the index of the DataFrame, in order
    last,         \* the latest call on the handler and its outcome
    b_pc,         \* the batch: "idle", "running" or "done"
    b_req,        \* the batch's arguments: columns, pairwise, n_jobs
    b_running,    \* the tasks (positions in columns) a worker is computing
    b_order,      \* the finished tasks, in the order they finished
    b_results,    \* the outcome of each finished task
    b_table       \* what the batch returned, Pending before it returns

handler == <<pc, in_data, in_metadata, data, metadata>>

batch == <<b_pc, b_req, b_running, b_order, b_results, b_table>>

vars == <<handler, last, batch>>

NoCall == [op |-> "none", args |-> <<>>, out |-> Return(None)]

\* BaseDiversityHandler.samples
samples(md) == md

\* Series.unique() of a metadata column
unique(md, column) == {ColumnValue(column, s) : s \in Range(md)}

\* --------------------------------------------------------- the constructor
\* data.loc[samps_in_common] / metadata.loc[samps_in_common]: the rows of the
\* labels, in the iteration order of the set
Loc(index, order) == SelectSeq(order, LAMBDA s : s \in index)

samps_in_common_wrong(md_samps, data_samps) == md_samps \cup data_samps

samps_in_common(md_samps, data_samps) == md_samps \cap data_samps

\* AlphaDiversityHandler.__init__; order is the iteration order of the set
AlphaDiversityHandler(data_index, metadata_index, order) ==
    [data |-> Loc(data_index, order), metadata |-> Loc(metadata_index, order)]

Construct ==
    /\ pc = "start"
    /\ \E d \in SUBSET SampleIds, m \in SUBSET SampleIds :
         \E order \in Orders(samps_in_common(m, d)) :
            LET h == AlphaDiversityHandler(d, m, order) IN
            /\ in_data' = d
            /\ in_metadata' = m
            /\ data' = h.data
            /\ metadata' = h.metadata
    /\ pc' = "constructed"
    /\ last' = [op |-> "__init__", args |-> <<>>, out |-> Return(None)]
    /\ UNCHANGED batch

\* ------------------------------------------- _incept_power_solve_function
partial(func, keywords) == <<"partial", func, keywords>>

halved_floor(total_observations) == FloorDiv(total_observations, 2)

\* line 74: total_observations / 2
halved(total_observations) == TrueDiv(total_observations, 2)

k_groups_off_by_one(num_choices) == num_choices - 1

\* line 84: k_groups=num_choices
k_groups(num_choices) == num_choices

_incept_power_solve_function(md, column, total_observations) ==
    IF Dtype(column) # "object"
    THEN Raise("ValueError", <<"Column must be of dtype object!">>)
    ELSE LET num_choices == Cardinality(unique(md, column)) IN
         IF num_choices = 1
         THEN Raise("ValueError", <<"Only one column value!">>)
         ELSE IF num_choices = 2
         THEN Return(partial("tt_ind_solve_power",
                  [nobs1 |-> IF total_observations # None
                             THEN halved(total_observations)
                             ELSE total_observations,
                   ratio |-> PyFloat(1, 1)]))
         ELSE Return(partial("FTestAnovaPower.solve_power",
                  [k_groups |-> PyInt(k_groups(num_choices)),
                   nobs |-> total_observations]))

ObsValues == {None} \cup {PyInt(n) : n \in 1..MaxObs}

InceptPowerSolveFunction ==
    /\ pc = "constructed"
    /\ \E column \in ColumnNames, total_observations \in ObsValues :
         last' = [op |-> "_incept_power_solve_function",
                  args |-> <<column, total_observations>>,
                  out |-> _incept_power_solve_function(metadata, column, total_observations)]
    /\ UNCHANGED <<handler, batch>>

\* ------------------------------------------ BaseDiversityHandler.power_analysis
\* functools.partial.__call__: the bound keywords, overridden by the call's
PartialCall(power_function, call_keywords) ==
    LET bound == power_function[3]
        merged == [k \in DOMAIN bound \cup DOMAIN call_keywords |->
                     IF k \in DOMAIN call_keywords THEN call_keywords[k] ELSE bound[k]]
    IN <<"solved", power_function[2], merged>>

\* lines 39-44: the value the solver yields for this invocation
Base_power_analysis(power_function, effect_size, alpha, power) ==
    LET val_to_solve == PartialCall(power_function,
            [effect_size |-> effect_size, power |-> power, alpha |-> alpha])
    IN Return(val_to_solve)

AlphaValues == {None, PyFloat(1, 20)}

PowerValues == {None, PyFloat(4, 5)}

EffectSizes == {PyFloat(2, 5), PyFloat(1, 2)}

\* the abstract method's body, reached through super() with the stem that
\* _incept_power_solve_function returned last
BasePowerAnalysis ==
    /\ pc = "constructed"
    /\ last.op = "_incept_power_solve_function"
    /\ last.out.kind = "return"
    /\ \E effect_size \in EffectSizes, alpha \in AlphaValues, power \in PowerValues :
         last' = [op |-> "Base.power_analysis",
                  args |-> <<last.out.value, effect_size, alpha, power>>,
                  out |-> Base_power_analysis(last.out.value, effect_size, alpha, power)]
    /\ UNCHANGED <<handler, batch>>

\* ----------------------------------------- AlphaDiversityHandler.power_analysis
\* the parameters _incept_power_solve_function declares (lines 46-50)
InceptParameters == {"column", "total_observations"}

\* lines 113-116: the keywords of the call
InceptCallKeywords(column, total_observations) ==
    [column |-> column, total_observation |-> total_observations]

\* Python's binding of a keyword call, then the function's body
CallIncept(md, keywords) ==
    IF \E k \in DOMAIN keywords : k \notin InceptParameters
    THEN Raise("TypeError",
               <<"_incept_power_solve_function() got an unexpected keyword argument",
                 CHOOSE k \in DOMAIN keywords : k \notin InceptParameters>>)
    ELSE _incept_power_solve_function(md, keywords.column,
             IF "total_observations" \in DOMAIN keywords
             THEN keywords["total_observations"] ELSE None)

\* lines 105-118: the stem is built and dropped, and the bare return yields None
Alpha_power_analysis(md, column, total_observations, difference, alpha, power) ==
    LET power_func == CallIncept(md, InceptCallKeywords(column, total_observations))
    IN IF power_func.kind = "raise" THEN power_func ELSE Return(None)

PowerAnalysis ==
    /\ pc = "constructed"
    /\ \E column \in ColumnNames, total_observations \in ObsValues,
          alpha \in AlphaValues, power \in PowerValues :
         last' = [op |-> "power_analysis",
                  args |-> <<column, total_observations, None, alpha, power>>,
                  out |-> Alpha_power_analysis(metadata, column, total_observations,
                                               None, alpha, power)]
    /\ UNCHANGED <<handler, batch>>

\* TestPower.test_alpha_power_power_t followed by test_alpha_power_obs_t: the
\* power solved from N observations is fed back to solve for the observations
RoundTrip(md, column, total_observations, alpha) ==
    LET calc_power == Alpha_power_analysis(md, column, total_observations, None, alpha, None)
    IN IF calc_power.kind = "raise" THEN calc_power
       ELSE Alpha_power_analysis(md, column, None, None, alpha, calc_power.value)

TestRoundTrip ==
    /\ pc = "constructed"
    /\ \E column \in ColumnNames, n \in 1..MaxObs :
         last' = [op |-> "round_trip",
                  args |-> <<column, PyInt(n), PyFloat(1, 20)>>,
                  out |-> RoundTrip(metadata, column, PyInt(n), PyFloat(1, 20))]
    /\ UNCHANGED <<handler, batch>>

\* ------------------------------------------------------------ subset_values
\* the diversity values of the given samples; an empty selection is an error
subset_values(d, ids) ==
    LET subset == SelectSeq(d, LAMBDA s : s \in ids)
    IN IF subset = <<>>
       THEN Raise("NoSamplesError", <<"No samples remain">>)
       ELSE Return(<<"Series", [i \in DOMAIN subset |-> <<subset[i], DataValue(subset[i])>>]>>)

SubsetValues ==
    /\ pc = "constructed"
    /\ \E ids \in SUBSET SampleIds :
         last' = [op |-> "subset_values", args |-> <<ids>>, out |-> subset_values(data, ids)]
    /\ UNCHANGED <<handler, batch>>

\* --------------------------------------------------------------- effect size
\* the sum and the product of f[x] over the x in S
RECURSIVE SumOver(_, _)
SumOver(S, f) ==
    IF S = {} THEN 0 ELSE LET x == CHOOSE y \in S : TRUE IN f[x] + SumOver(S \ {x}, f)

RECURSIVE ProductOver(_, _)
ProductOver(S, f) ==
    IF S = {} THEN 1 ELSE LET x == CHOOSE y \in S : TRUE IN f[x] * ProductOver(S \ {x}, f)

Total(S) == SumOver(S, [s \in S |-> DataValue(s)])

TotalOfSquares(S) == SumOver(S, [s \in S |-> DataValue(s) * DataValue(s)])

\* the samples of each category of a column
Partition(md, column) ==
    {{s \in Range(md) : ColumnValue(column, s) = v} : v \in unique(md, column)}

\* an effect size as <<kind, "finite", sign, num, den>>, its square being the
\* reduced fraction num / den, or <<kind, "nan", 0, 0, 0>> when the variance
\* it divides by is zero
Ratio(kind, sign, num, den) ==
    IF den = 0 THEN <<kind, "nan", 0, 0, 0>>
    ELSE LET g == Gcd(num, den) IN <<kind, "finite", sign, num \div g, den \div g>>

Sgn(x) == IF x > 0 THEN 1 ELSE IF x < 0 THEN 0 - 1 ELSE 0

Least(S) == CHOOSE x \in S : \A y \in S : x <= y

\* Cohen's d of two groups: the difference of the
\* means over the pooled standard deviation
cohens_d(A, B) ==
    LET nA == Cardinality(A)
        nB == Cardinality(B)
        sA == Total(A)
        sB == Total(B)
        diff == sA * nB - sB * nA
        within == nB * (nA * TotalOfSquares(A) - sA * sA)
                  + nA * (nB * TotalOfSquares(B) - sB * sB)
    IN Ratio("cohens_d", Sgn(diff), diff * diff * (nA + nB - 2), nA * nB * within)

\* Cohen's f of three or more groups: f^2 = eta^2 / (1 - eta^2),
\* the between-group over the within-group sum of squares
cohens_f(groups) ==
    LET all == UNION groups
        n == Cardinality(all)
        s == Total(all)
        sizes == ProductOver(groups, [g \in groups |-> Cardinality(g)])
        t == SumOver(groups, [g \in groups |->
                 Total(g) * Total(g) * n * (sizes \div Cardinality(g))])
    IN Ratio("cohens_f", 1, t - s * s * sizes, TotalOfSquares(all) * n * sizes - t)

calculate_effect_size(groups) ==
    IF Cardinality(groups) = 2
    THEN LET A == CHOOSE g \in groups : \A h \in groups : Least(g) <= Least(h)
             B == CHOOSE g \in groups : g # A
         IN cohens_d(A, B)
    ELSE cohens_f(groups)

\* the column validator: None when the column can be used for grouping
validate(md, column) ==
    IF Dtype(column) # "object"
    THEN Raise("NonCategoricalColumnError", <<column, Dtype(column)>>)
    ELSE IF Cardinality(unique(md, column)) < 2
    THEN Raise("OnlyOneCategoryError", <<column, unique(md, column)>>)
    ELSE Return(None)

\* the single-column path: validate, partition, effect size
effect_size_single(md, column, pairwise) ==
    LET v == validate(md, column)
        groups == Partition(md, column)
    IN IF v.kind = "raise" THEN v
       ELSE IF pairwise
       THEN Return(<<"pairwise", "map", 0, 0,
                [pair \in {p \in SUBSET groups : Cardinality(p) = 2} |->
                    calculate_effect_size(pair)]>>)
       ELSE Return(calculate_effect_size(groups))

\* ------------------------------------------------- _effect_size_by_category
\* the batch has not returned
Pending == [kind |-> "pending", type |-> "", msg |-> <<>>, value |-> None]

NoRequest == [columns |-> <<>>, pairwise |-> FALSE, n_jobs |-> 1, function |-> ""]

batch_function_ignoring_pairwise(pairwise) == "effect_size_by_category"

\* lines 100-103: the batch function the pairwise flag selects
batch_function(pairwise) ==
    IF pairwise THEN "pairwise_effect_size_by_category" ELSE "effect_size_by_category"

ColumnLists ==
    UNION {{q \in [1..n -> ColumnNames] : \A i, j \in 1..n : i # j => q[i] # q[j]} :
             n \in 1..MaxCols}

\* the handler is built from the arguments (line 98), then the pool is started
StartBatch ==
    /\ pc = "start"
    /\ b_pc = "idle"
    /\ \E m \in {SampleIds} \cup {SampleIds \ {s} : s \in SampleIds} :
         \E order \in Orders(samps_in_common(m, SampleIds)) :
            LET h == AlphaDiversityHandler(SampleIds, m, order) IN
            /\ in_data' = SampleIds
            /\ in_metadata' = m
            /\ data' = h.data
            /\ metadata' = h.metadata
    /\ pc' = "constructed"
    /\ \E columns \in ColumnLists, pairwise \in BOOLEAN, n_jobs \in 1..MaxJobs :
         b_req' = [columns |-> columns, pairwise |-> pairwise, n_jobs |-> n_jobs,
                   function |-> batch_function(pairwise)]
    /\ b_pc' = "running"
    /\ UNCHANGED <<last, b_running, b_order, b_results, b_table>>

Tasks == DOMAIN b_req.columns

\* a free worker takes a column nobody has taken
WorkerTake ==
    /\ b_pc = "running"
    /\ Cardinality(b_running) < b_req.n_jobs
    /\ \E t \in Tasks \ (b_running \cup Range(b_order)) :
         b_running' = b_running \cup {t}
    /\ UNCHANGED <<handler, last, b_pc, b_req, b_order, b_results, b_table>>

\* a worker finishes its column: it read data and metadata and wrote neither
WorkerFinish ==
    /\ b_pc = "running"
    /\ \E t \in b_running :
         /\ b_running' = b_running \ {t}
         /\ b_order' = Append(b_order, t)
         /\ b_results' = [i \in DOMAIN b_results \cup {t} |->
                            IF i = t
                            THEN effect_size_single(metadata, b_req.columns[t],
                                     b_req.function = "pairwise_effect_size_by_category")
                            ELSE b_results[i]]
    /\ UNCHANGED <<handler, last, b_pc, b_req, b_table>>

\* one row per column, in the order of the columns
TableRows(columns, results) ==
    [i \in DOMAIN columns |-> <<columns[i], results[i].value>>]

\* every worker has finished: the first failure is raised, or the table returned
Assemble ==
    /\ b_pc = "running"
    /\ Range(b_order) = Tasks
    /\ b_table' =
         IF \E i \in Tasks : b_results[i].kind = "raise"
         THEN b_results[Least({i \in Tasks : b_results[i].kind = "raise"})]
         ELSE Return(<<"table", TableRows(b_req.columns, b_results)>>)
    /\ b_pc' = "done"
    /\ UNCHANGED <<handler, last, b_req, b_running, b_order, b_results>>

\* ------------------------------------------------------------ specification
Init ==
    /\ pc = "start"
    /\ in_data = {}
    /\ in_metadata = {}
    /\ data = <<>>
    /\ metadata = <<>>
    /\ last = NoCall
    /\ b_pc = "idle"
    /\ b_req = NoRequest
    /\ b_running = {}
    /\ b_order = <<>>
    /\ b_results = <<>>
    /\ b_table = Pending

Next ==
    \/ Construct
    \/ InceptPowerSolveFunction
    \/ BasePowerAnalysis
    \/ PowerAnalysis
    \/ TestRoundTrip
    \/ SubsetValues

Spec == Init /\ [][Next]_vars

NextBatch ==
    \/ StartBatch
    \/ WorkerTake
    \/ WorkerFinish
    \/ Assemble

SpecBatch == Init /\ [][NextBatch]_vars

\* ------------------------------------------------------------------ claims
IsCall(op) == last.op = op

NoneCount(values) == Cardinality({i \in DOMAIN values : values[i] = None})

\* the number of distinct values of a column of the handler's metadata
NumChoices(column) == Cardinality(unique(metadata, column))

\* C1: a power_analysis call in which the number of None among alpha, power
\* and total_observations is not exactly one fails with WrongPowerArguments,
\* whose message lists the three values; with exactly one None it does not
\* fail with WrongPowerArguments.
C1_WrongArgumentCountRaises ==
    IsCall("power_analysis") =>
        LET total_observations == last.args[2]
            alpha == last.args[4]
            power == last.args[5]
        IN IF NoneCount(<<alpha, power, total_observations>>) # 1
           THEN /\ last.out.kind = "raise"
                /\ last.out.type = "WrongPowerArguments"
                /\ last.out.msg = <<alpha, power, total_observations>>
           ELSE last.out.type # "WrongPowerArguments"

\* C2: a power_analysis call with exactly one None among alpha, power and
\* total_observations, on a categorical column with two or more values,
\* returns the value the selected solver computed, never None.
C2_ValidCallReturnsSolvedValue ==
    (/\ IsCall("power_analysis")
     /\ NoneCount(<<last.args[4], last.args[5], last.args[2]>>) = 1
     /\ Dtype(last.args[1]) = "object"
     /\ NumChoices(last.args[1]) >= 2)
    => /\ last.out.kind = "return"
       /\ last.out.value # None
       /\ last.out.value[1] = "solved"

\* the observation count a stem binds into its solver
BoundObservations(stem) ==
    IF "nobs1" \in DOMAIN stem[3] THEN stem[3].nobs1 ELSE stem[3].nobs

\* C3: the stem built for a column binds N / 2 observations when the column
\* has exactly two distinct values and N when it has three or more; a
\* total_observations of None is bound as None in both cases.
C3_ObservationsHalvedForTwoGroups ==
    (IsCall("_incept_power_solve_function") /\ last.out.kind = "return") =>
        LET N == last.args[2]
            k == NumChoices(last.args[1])
            bound == BoundObservations(last.out.value)
        IN /\ N = None => bound = None
           /\ (N # None /\ k = 2) =>
                  /\ bound[1] = "float"
                  /\ 2 * bound[2] = N[2] * bound[3]
           /\ (N # None /\ k >= 3) => bound = N

C3_Witness ==
    /\ IsCall("_incept_power_solve_function")
    /\ NumChoices(last.args[1]) = 2
    /\ last.args[2] = PyInt(3)
    /\ last.out.kind = "return"
    /\ BoundObservations(last.out.value) = <<"float", 3, 2>>

\* C4: for a categorical column the number k of distinct values alone picks
\* the solver: k = 2 the two-sample t-test relation with ratio 1.0, k > 2 the
\* ANOVA F relation with k_groups = k, never neither and never both; and the
\* base power_analysis hands effect size, alpha and power to the stem's solver
\* unchanged, next to what the stem bound.
C4_SolverChosenByGroupCount ==
    /\ (IsCall("_incept_power_solve_function") /\ Dtype(last.args[1]) = "object") =>
          LET k == NumChoices(last.args[1])
              stem == last.out.value
          IN /\ k = 2 => /\ last.out.kind = "return"
                         /\ stem[2] = "tt_ind_solve_power"
                         /\ DOMAIN stem[3] = {"nobs1", "ratio"}
                         /\ stem[3].ratio = <<"float", 1, 1>>
             /\ k > 2 => /\ last.out.kind = "return"
                         /\ stem[2] = "FTestAnovaPower.solve_power"
                         /\ DOMAIN stem[3] = {"k_groups", "nobs"}
                         /\ stem[3].k_groups = PyInt(k)
    /\ IsCall("Base.power_analysis") =>
          LET stem == last.args[1]
              solved == last.out.value
          IN /\ last.out.kind = "return"
             /\ solved[1] = "solved"
             /\ solved[2] = stem[2]
             /\ DOMAIN solved[3] = DOMAIN stem[3] \cup {"effect_size", "alpha", "power"}
             /\ solved[3].effect_size = last.args[2]
             /\ solved[3].alpha = last.args[3]
             /\ solved[3].power = last.args[4]
             /\ \A key \in DOMAIN stem[3] : solved[3][key] = stem[3][key]

C4_Witness ==
    /\ IsCall("Base.power_analysis")
    /\ last.args[1][2] = "FTestAnovaPower.solve_power"
    /\ last.args[1][3].k_groups = PyInt(3)
    /\ last.args[3] # None
    /\ last.out.value[3].alpha = last.args[3]

\* C5: on a two-group column, solving for power from total_observations = N
\* and then for total_observations from that power returns N.
C5_RoundTripReturnsTotalObservations ==
    (IsCall("round_trip") /\ Dtype(last.args[1]) = "object" /\ NumChoices(last.args[1]) = 2)
    => /\ last.out.kind = "return"
       /\ last.out.value = last.args[2]

\* C6: on a column whose dtype is not object, whatever its number of distinct
\* values, the call fails with NonCategoricalColumnError, whose message names
\* the column and its dtype, and no solver is selected.
C6_NonCategoricalColumnRaises ==
    ((IsCall("power_analysis") \/ IsCall("_incept_power_solve_function"))
     /\ Dtype(last.args[1]) # "object")
    => /\ last.out.kind = "raise"
       /\ last.out.type = "NonCategoricalColumnError"
       /\ last.args[1] \in Range(last.out.msg)
       /\ Dtype(last.args[1]) \in Range(last.out.msg)

\* C7: on a categorical column with exactly one distinct value the call fails
\* with OnlyOneCategoryError, whose message names the column, and no solver
\* is selected.
C7_OnlyOneCategoryRaises ==
    ((IsCall("power_analysis") \/ IsCall("_incept_power_solve_function"))
     /\ Dtype(last.args[1]) = "object"
     /\ NumChoices(last.args[1]) = 1)
    => /\ last.out.kind = "raise"
       /\ last.out.type = "OnlyOneCategoryError"
       /\ last.args[1] \in Range(last.out.msg)

\* C8: once constructed, the handler's data and metadata hold the same sample
\* ids in the same order, namely the ids common to the two inputs, samples
\* lists the metadata index, and no later call changes data or metadata.
C8_DataAndMetadataCoverCommonSamples ==
    /\ [](pc = "constructed" =>
            /\ Range(data) = in_data \cap in_metadata
            /\ Range(metadata) = in_data \cap in_metadata
            /\ data = metadata
            /\ samples(metadata) = metadata
            /\ Len(metadata) = Cardinality(in_data \cap in_metadata))
    /\ [][pc = "constructed" => (data' = data /\ metadata' = metadata)]_vars

C8_Witness ==
    /\ IsCall("subset_values")
    /\ in_data \ in_metadata # {}
    /\ in_metadata \ in_data # {}
    /\ Len(metadata) = 1
    /\ last.out.kind = "return"

\* C9: an empty sample set is never accepted: the constructor fails with
\* NoSamplesError when the inputs share no sample id, and subset_values fails
\* with NoSamplesError when given ids the handler has none of.
C9_EmptySampleSetRaises ==
    /\ (IsCall("__init__") /\ in_data \cap in_metadata = {}) =>
          (last.out.kind = "raise" /\ last.out.type = "NoSamplesError")
    /\ (IsCall("subset_values") /\ last.args[1] \cap Range(data) = {}) =>
          (last.out.kind = "raise" /\ last.out.type = "NoSamplesError")

====
